---------------------------- MODULE Spec2Model ----------------------------
(***************************************************************************)
(* State-machine model of src/server.js: an Express application with a     *)
(* token gate (authenticateToken), two unauthenticated routes (register,   *)
(* login) and CRUD routes over two tables (transactions, new_loans).       *)
(*                                                                         *)
(* Every route handler is an async function.  It is cut at its await       *)
(* expressions: one action runs the awaited operation (a statement in the  *)
(* database, a pool checkout, a bcrypt call) together with the synchronous *)
(* continuation of the handler up to its next await or its end.  Handlers  *)
(* of different requests interleave at exactly these points.               *)
(*                                                                         *)
(* The database is not part of the repository.  A statement either runs as *)
(* written or throws (lost connection, malformed parameter, a constraint   *)
(* of the unknown schema): both outcomes are explored at every statement.  *)
(*                                                                         *)
(* Four specifications share the actions.  Register and login read and     *)
(* write only the table users; the protected routes never touch it (the    *)
(* gate verifies a signature, it does not query).  SpecAuth therefore runs *)
(* register and login from an empty database, and Spec, SpecLoans and      *)
(* SpecGate run the protected routes from a database in which two users    *)
(* have registered: Spec all eight routes with genuine tokens, SpecLoans   *)
(* the four loan routes with every body of LoanBodies, SpecGate all eight  *)
(* routes with genuine and bad Authorization headers.                      *)
(***************************************************************************)
EXTENDS Integers, Sequences, FiniteSets, Bags, TLC

VARIABLES
    users,          \* rows of table users
    transactions,   \* rows of table transactions
    new_loans,      \* rows of table new_loans
    seq,            \* the serial counter of each table (last id handed out)
    uniqueEmail,    \* whether the deployed schema declares users.email UNIQUE
    pool,           \* number of clients checked out of the pg Pool
    inflight,       \* bag of suspended handlers (one record per request)
    out,            \* what the step just taken sent to its client (or Quiet)
    hist            \* history: who created each id, how many DELETEs answered 200

vars == <<users, transactions, new_loans, seq, uniqueEmail, pool, inflight, out, hist>>

----------------------------------------------------------------------------
(* Bounds of the model *)

MaxInFlight == 2    \* requests being handled at the same time
MaxRows == 1        \* ids handed out per resource table
MaxUsers == 2       \* rows inserted into users

----------------------------------------------------------------------------
(* JavaScript values that reach the handlers in a JSON body.  A string is  *)
(* the sequence of its pieces: single characters, or a run of characters  *)
(* without a space written as one piece.                                  *)

Undefined == <<"undefined">>
Null == <<"null">>
PosInf == <<"number", "Infinity">>
NaN == <<"number", "NaN">>
Num(n) == <<"number", "finite", n>>
Bool(b) == <<"boolean", b>>
Str(s) == <<"string", s>>

IsStr(v) == v[1] = "string"
IsFinite(v) == v[1] = "number" /\ Len(v) = 3

Whitespace == {" "}
Digits == <<"0", "1", "2", "3", "4", "5", "6", "7", "8", "9">>
IsDigit(c) == \E i \in 1..10 : Digits[i] = c
DigitVal(c) == (CHOOSE i \in 1..10 : Digits[i] = c) - 1

RECURSIVE TrimStart(_)
TrimStart(s) ==
    IF s # <<>> /\ Head(s) \in Whitespace THEN TrimStart(Tail(s)) ELSE s

RECURSIVE TrimEnd(_)
TrimEnd(s) ==
    IF s # <<>> /\ s[Len(s)] \in Whitespace
    THEN TrimEnd(SubSeq(s, 1, Len(s) - 1))
    ELSE s

\* String.prototype.trim on a string given as its sequence of characters
Trim(s) == TrimEnd(TrimStart(s))

RECURSIVE DecimalValue(_)
DecimalValue(s) ==
    IF s = <<>> THEN 0
    ELSE 10 * DecimalValue(SubSeq(s, 1, Len(s) - 1)) + DigitVal(s[Len(s)])

AllDigits(s) == s # <<>> /\ \A i \in 1..Len(s) : IsDigit(s[i])

\* Number(string) for the decimal integer literals, the empty string and
\* anything else (NaN); other numeric literal forms are not in the inputs.
StringToNumber(s) ==
    LET t == Trim(s) IN
    IF t = <<>> THEN Num(0)
    ELSE IF AllDigits(t) THEN Num(DecimalValue(t))
    ELSE IF Head(t) = "-" /\ AllDigits(Tail(t)) THEN Num(0 - DecimalValue(Tail(t)))
    ELSE IF Head(t) = "+" /\ AllDigits(Tail(t)) THEN Num(DecimalValue(Tail(t)))
    ELSE NaN

\* ToNumber, the coercion applied by isNaN(x) and by x <= 0
ToNumber(v) ==
    CASE v[1] = "undefined" -> NaN
      [] v[1] = "null" -> Num(0)
      [] v[1] = "boolean" -> IF v[2] THEN Num(1) ELSE Num(0)
      [] v[1] = "string" -> StringToNumber(v[2])
      [] OTHER -> v

\* !x
Falsy(v) ==
    \/ v \in {Undefined, Null, NaN, Bool(FALSE), Str(<<>>)}
    \/ IsFinite(v) /\ v[3] = 0

\* isNaN(x)
IsNaN(v) == ToNumber(v) = NaN

\* x <= 0
LeqZero(v) == LET n == ToNumber(v) IN IsFinite(n) /\ n[3] <= 0

\* !x?.trim() for the values in the inputs (undefined, null, strings)
BlankText(v) == IF IsStr(v) THEN Trim(v[2]) = <<>> ELSE TRUE

\* x.trim() once the check above has passed
Trimmed(v) == Str(Trim(v[2]))

\* !amount || isNaN(amount) || amount <= 0
BadAmount(v) == Falsy(v) \/ IsNaN(v) \/ LeqZero(v)


----------------------------------------------------------------------------
(* The Authorization header and the token gate *)

\* A header is Undefined (not sent) or a string whose characters are given
\* as pieces: a space, a word without spaces, or a signed token.
Space == <<"sp">>
Word(w) == <<"word", w>>
Jwt(id, signed, live) == <<"jwt", id, signed, live>>

\* jwt.sign({ id }, JWT_SECRET, { expiresIn: '1d' })
Sign(id) == Jwt(id, TRUE, TRUE)

RECURSIVE SplitOn(_, _)
\* String.prototype.split(sep): the fields between the separators
SplitOn(s, sep) ==
    IF \A i \in 1..Len(s) : s[i] # sep THEN <<s>>
    ELSE LET k == CHOOSE i \in 1..Len(s) : s[i] = sep /\ \A j \in 1..(i - 1) : s[j] # sep
         IN <<SubSeq(s, 1, k - 1)>> \o SplitOn(SubSeq(s, k + 1, Len(s)), sep)

\* authHeader && authHeader.split(' ')[1]
BearerField(authHeader) ==
    IF Falsy(authHeader) THEN authHeader
    ELSE LET f == SplitOn(authHeader[2], Space)
         IN IF Len(f) >= 2 THEN Str(f[2]) ELSE Undefined

\* jwt.verify(token, JWT_SECRET, cb): the payload's id, or 0 when cb is
\* called with err (bad signature, expired, not a token at all)
Verify(token) ==
    LET t == token[2] IN
    IF Len(t) = 1 /\ t[1][1] = "jwt" /\ t[1][3] /\ t[1][4] THEN t[1][2] ELSE 0

MissingToken == 401
InvalidToken == 403

\* authenticateToken without the 'if (err)' line of the verify callback
authenticateTokenUnverified(authHeader) ==
    IF Falsy(BearerField(authHeader)) THEN MissingToken ELSE 0

\* authenticateToken: the status it answers with, or 0 when it calls next()
authenticateToken(authHeader) ==
    LET token == BearerField(authHeader) IN
    IF Falsy(token) THEN MissingToken
    ELSE IF Verify(token) = 0 THEN InvalidToken
    ELSE 0

\* req.user.id after the gate has called next()
ReqUserId(authHeader) == Verify(BearerField(authHeader))

----------------------------------------------------------------------------
(* Requests, handlers and responses *)

Register == "POST /api/register"
Login == "POST /api/login"
GetExpenses == "GET /api/expenses"
PostExpenses == "POST /api/expenses"
DeleteExpense == "DELETE /api/expenses/:id"
PutExpense == "PUT /api/expenses/:id"
GetLoans == "GET /api/loans"
PostLoans == "POST /api/loans"
PutLoans == "PUT /api/loans/:id"
DeleteLoan == "DELETE /api/loans/:id"

Protected == {GetExpenses, PostExpenses, DeleteExpense, PutExpense,
              GetLoans, PostLoans, PutLoans, DeleteLoan}
WithId == {DeleteExpense, PutExpense, PutLoans, DeleteLoan}

\* req.body of a request sent without one (express.json() leaves {})
EmptyBody == [amount |-> Undefined]

\* A suspended handler: the request it serves, req.user.id, where it awaits
\* (pc) and the locals that live across awaits.
Handler(ep, auth, id, body, uid, pc) ==
    [ep |-> ep, auth |-> auth, id |-> id, body |-> body, user |-> uid,
     pc |-> pc, locals |-> Undefined]

NoRequest == Handler("none", Undefined, 0, EmptyBody, 0, "none")

Quiet == [kind |-> "none", req |-> NoRequest, status |-> 0, json |-> <<"none">>]

\* res.status(status).json(json), sent by the handler h
Response(h, status, json) ==
    [kind |-> "response", req |-> h, status |-> status, json |-> json]

\* the handler's promise rejected outside any try block: nothing is sent
Unhandled(h) ==
    [kind |-> "unhandledRejection", req |-> h, status |-> 0, json |-> <<"none">>]

Error(msg) == <<"error", msg>>

Suspend(h) == inflight (+) SetToBag({h})
Resume(h) == inflight (-) SetToBag({h})
Awaiting(ep, pc) == {h \in BagToSet(inflight) : h.ep = ep /\ h.pc = pc}


----------------------------------------------------------------------------
(* The statements sent to the database *)

\* pg sends undefined as NULL
Param(v) == IF v = Undefined THEN Null ELSE v

\* the existence check comparing the wrong column
SelectUsersByName(email) == {u \in users : u.name = email}

\* SELECT * FROM users WHERE email = $1
SelectUsers(email) == {u \in users : u.email = email}

\* SELECT * FROM transactions WHERE user_id = $1 AND type = $2
SelectTransactions(uid, type) ==
    {t \in transactions : t.user_id = uid /\ t.type = type}

\* INSERT INTO transactions (user_id, type, category, amount, description)
TransactionRow(id, uid, type, category, amount, description) ==
    [transaction_id |-> id, user_id |-> uid, type |-> type,
     category |-> Param(category), amount |-> Param(amount),
     description |-> Param(description)]

\* ... FROM transactions WHERE transaction_id = $1 AND user_id = $2
MatchTransactions(id, uid) ==
    {t \in transactions : t.transaction_id = id /\ t.user_id = uid}

\* a statement that returns the matched rows and deletes none
DeleteNoTransactions(result) == transactions

\* DELETE FROM transactions WHERE ...: the table without the matched rows
DeleteTransactions(result) == transactions \ result

\* UPDATE transactions SET category = $1, amount = $2, description = $3
SetTransaction(t, category, amount, description) ==
    [t EXCEPT !.category = Param(category), !.amount = Param(amount),
              !.description = Param(description)]

\* the list of loans without its WHERE clause
SelectLoansOfAnyone(uid) == new_loans

\* SELECT * FROM new_loans WHERE user_id = $1
SelectLoans(uid) == {l \in new_loans : l.user_id = uid}

\* INSERT INTO new_loans (user_id, person_name, type, amount, description,
\* due_date); status is not in the column list and takes the column default
LoanRow(id, uid, person_name, type, amount, description, due_date) ==
    [loan_id |-> id, user_id |-> uid, person_name |-> Param(person_name),
     type |-> Param(type), amount |-> Param(amount),
     description |-> Param(description), status |-> Null,
     due_date |-> Param(due_date)]

\* the WHERE clause without 'AND user_id'
MatchLoansOfAnyone(id, uid) == {l \in new_loans : l.loan_id = id}

\* ... new_loans ... WHERE loan_id = $7 AND user_id = $8
MatchLoans(id, uid) ==
    {l \in new_loans : l.loan_id = id /\ l.user_id = uid}

\* DELETE FROM new_loans WHERE ...: the table without the matched rows
DeleteLoans(result) == new_loans \ result

\* UPDATE new_loans SET person_name = $1, type = $2, amount = $3,
\* description = $4, status = $5, due_date = $6
SetLoan(l, person_name, type, amount, description, status, due_date) ==
    [l EXCEPT !.person_name = Param(person_name), !.type = Param(type),
              !.amount = Param(amount), !.description = Param(description),
              !.status = Param(status), !.due_date = Param(due_date)]

\* hist records what the database forgets: the caller that created each
\* id, and how many DELETEs of the id were answered 200.  A new id:
Created(table, uid) ==
    [hist EXCEPT ![table] = Append(@, [by |-> uid, deletes |-> 0])]

\* one more DELETE of id answered 200
Deleted(table, id) ==
    IF id \in 1..Len(hist[table])
    THEN [hist EXCEPT ![table][id].deletes = @ + 1]
    ELSE hist


----------------------------------------------------------------------------
(* Inputs *)

Chars(w) == Str(<<w>>)

UserIds == {u.user_id : u \in users}

Bearer(token) == Str(<<Word("Bearer"), Space, token>>)

\* a token can only be presented with a good signature if it was signed for
\* a registered user by register or login
GoodHeaders == {Bearer(Sign(u)) : u \in UserIds}

\* no header; no space; nothing after the space; a second space before the
\* token; a token with a bad signature; an expired token
BadHeaders ==
    {Undefined, Str(<<Word("Bearer")>>), Str(<<Word("Bearer"), Space>>),
     Str(<<Word("Bearer"), Space, Space, Sign(1)>>),
     Bearer(Jwt(1, FALSE, TRUE)), Bearer(Jwt(1, TRUE, FALSE))}

Ids == 1..MaxRows

ExpenseBody(amount) ==
    [category |-> Chars("food"), amount |-> amount, description |-> Chars("lunch")]

ExpenseBodies == {ExpenseBody(Num(5)), ExpenseBody(Num(0 - 5))}

LoanBody(person_name, amount, description) ==
    [person_name |-> person_name, type |-> Chars("lent"), amount |-> amount,
     description |-> description, status |-> Undefined, due_date |-> Undefined]

PaddedName == Str(<<" ", "Bob", " ">>)

LoanAmounts ==
    {Num(5), Undefined, Str(<<"a", "b", "c">>), Num(0), Str(<<"-", "3">>), Num(0 - 5), Bool(TRUE)}

LoanBodies ==
    {LoanBody(PaddedName, a, Chars("rent")) : a \in LoanAmounts}
    \cup {LoanBody(Str(<<" ">>), Num(5), Chars("rent")),
          LoanBody(PaddedName, Num(5), Undefined)}

\* a body that passes the validation, one the validation lets through
\* although its amount is no number, and one it rejects
FewLoanBodies ==
    {LoanBody(PaddedName, Num(5), Chars("rent")),
     LoanBody(PaddedName, Bool(TRUE), Chars("rent")),
     LoanBody(Str(<<" ">>), Num(5), Chars("rent"))}

Bodies(ep, loanBodies) ==
    CASE ep \in {PostExpenses, PutExpense} -> ExpenseBodies
      [] ep \in {PostLoans, PutLoans} -> loanBodies
      [] OTHER -> {EmptyBody}

Params(ep) == IF ep \in WithId THEN Ids ELSE {0}

----------------------------------------------------------------------------
(* The router and the token gate *)

\* the first await of each protected handler
FirstAwait(ep) == IF ep \in {PostLoans, PutLoans} THEN "connect" ELSE "query"

\* authenticateToken calls next(): the handler starts and suspends at its
\* first await
Accept(ep, auth, id, body) ==
    /\ BagCardinality(inflight) < MaxInFlight
    /\ authenticateToken(auth) = 0
    /\ inflight' = Suspend(Handler(ep, auth, id, body, ReqUserId(auth), FirstAwait(ep)))
    /\ out' = Quiet
    /\ UNCHANGED <<users, transactions, new_loans, seq, uniqueEmail, pool, hist>>

\* authenticateToken answers by itself and never calls next()
Reject(ep, auth, id, body) ==
    /\ BagCardinality(inflight) < MaxInFlight
    /\ authenticateToken(auth) # 0
    /\ out' = Response(Handler(ep, auth, id, body, 0, "gate"),
                       authenticateToken(auth),
                       IF authenticateToken(auth) = MissingToken
                       THEN Error("Access denied") ELSE Error("Invalid token"))
    /\ UNCHANGED <<users, transactions, new_loans, seq, uniqueEmail, pool, inflight, hist>>

\* the handler h ends by sending a response
Send(h, status, json) ==
    /\ inflight' = Resume(h)
    /\ out' = Response(h, status, json)

\* the handler h goes on to its next await
Continue(h, g) ==
    /\ inflight' = Resume(h) (+) SetToBag({g})
    /\ out' = Quiet


----------------------------------------------------------------------------
(* Expense handlers.  Each is one pool.query inside try/catch. *)

\* app.get('/api/expenses')
GetExpensesQuery(h) ==
    /\ h \in Awaiting(GetExpenses, "query")
    /\ \/ Send(h, 200, <<"rows", SelectTransactions(h.user, "expense")>>)
       \/ Send(h, 500, Error("Server error"))
    /\ UNCHANGED <<users, transactions, new_loans, seq, uniqueEmail, pool, hist>>

\* app.post('/api/expenses')
PostExpensesQuery(h) ==
    /\ h \in Awaiting(PostExpenses, "query")
    /\ \/ /\ seq.transactions < MaxRows
          /\ LET row == TransactionRow(seq.transactions + 1, h.user, "expense",
                                       h.body.category, h.body.amount,
                                       h.body.description)
             IN /\ transactions' = transactions \cup {row}
                /\ seq' = [seq EXCEPT !.transactions = @ + 1]
                /\ hist' = Created("transactions", h.user)
                /\ Send(h, 200, <<"row", row>>)
       \/ /\ Send(h, 500, Error("Server error"))
          /\ UNCHANGED <<transactions, seq, hist>>
    /\ UNCHANGED <<users, new_loans, uniqueEmail, pool>>

\* app.delete('/api/expenses/:id')
DeleteExpenseQuery(h) ==
    /\ h \in Awaiting(DeleteExpense, "query")
    /\ \/ LET result == MatchTransactions(h.id, h.user)
          IN /\ transactions' = DeleteTransactions(result)
             /\ IF result = {}
                THEN /\ Send(h, 404, Error("Transaction not found"))
                     /\ hist' = hist
                ELSE /\ Send(h, 200, <<"message", "Transaction deleted successfully">>)
                     /\ hist' = Deleted("transactions", h.id)
       \/ /\ Send(h, 500, Error("Server error"))
          /\ UNCHANGED <<transactions, hist>>
    /\ UNCHANGED <<users, new_loans, seq, uniqueEmail, pool>>

\* app.put('/api/expenses/:id')
PutExpenseQuery(h) ==
    /\ h \in Awaiting(PutExpense, "query")
    /\ \/ LET matched == MatchTransactions(h.id, h.user)
              result == {SetTransaction(t, h.body.category, h.body.amount,
                                        h.body.description) : t \in matched}
          IN /\ transactions' = (transactions \ matched) \cup result
             /\ IF result = {}
                THEN Send(h, 404, Error("Transaction not found"))
                ELSE Send(h, 200, <<"row", CHOOSE t \in result : TRUE>>)
       \/ /\ Send(h, 500, Error("Server error"))
          /\ UNCHANGED transactions
    /\ UNCHANGED <<users, new_loans, seq, uniqueEmail, pool, hist>>

----------------------------------------------------------------------------
(* Loan handlers.  Create and update check a client out of the pool before *)
(* their try block and release it in finally.                              *)

\* pool.connect() resolves; the pool is never exhausted here (pg's default
\* of 10 clients exceeds the requests in flight)
Checkout(n) == n + 1

\* a handler without its finally block
ReleaseForgotten(n) == n

\* client.release() in the finally block
Release(n) == n - 1

\* the validation of app.post('/api/loans'): the message of the 400 it
\* answers with, or "" when the body passes
PostLoansValidation(b) ==
    IF BlankText(b.person_name) THEN "Person name is required"
    ELSE IF BlankText(b.type) THEN "Type is required"
    ELSE IF BadAmount(b.amount) THEN "Valid amount is required"
    ELSE IF BlankText(b.description) THEN "Description is required"
    ELSE ""

\* the validation of app.put('/api/loans/:id')
PutLoansValidation(b) ==
    IF BlankText(b.person_name) THEN "Person name is required"
    ELSE IF BlankText(b.type) THEN "Type is required"
    ELSE IF BadAmount(b.amount) THEN "Valid amount is required"
    ELSE IF BlankText(b.description) THEN "Description is required"
    ELSE ""

\* app.get('/api/loans')
GetLoansQuery(h) ==
    /\ h \in Awaiting(GetLoans, "query")
    /\ \/ Send(h, 200, <<"rows", SelectLoans(h.user)>>)
       \/ Send(h, 500, Error("Server error"))
    /\ UNCHANGED <<users, transactions, new_loans, seq, uniqueEmail, pool, hist>>

\* app.post('/api/loans'): await pool.connect(), then the validation
PostLoansConnect(h) ==
    /\ h \in Awaiting(PostLoans, "connect")
    /\ \/ /\ inflight' = Resume(h)
          /\ out' = Unhandled(h)
          /\ pool' = pool
       \/ /\ PostLoansValidation(h.body) # ""
          /\ Send(h, 400, Error(PostLoansValidation(h.body)))
          /\ pool' = Release(Checkout(pool))
       \/ /\ PostLoansValidation(h.body) = ""
          /\ Continue(h, [h EXCEPT !.pc = "query", !.client = TRUE])
          /\ pool' = Checkout(pool)
    /\ UNCHANGED <<users, transactions, new_loans, seq, uniqueEmail, hist>>

\* app.post('/api/loans'): await client.query(INSERT ...), then finally
PostLoansQuery(h) ==
    /\ h \in Awaiting(PostLoans, "query")
    /\ \/ /\ seq.new_loans < MaxRows
          /\ LET row == LoanRow(seq.new_loans + 1, h.user,
                                Trimmed(h.body.person_name), Trimmed(h.body.type),
                                h.body.amount, Trimmed(h.body.description),
                                h.body.due_date)
             IN /\ new_loans' = new_loans \cup {row}
                /\ seq' = [seq EXCEPT !.new_loans = @ + 1]
                /\ hist' = Created("new_loans", h.user)
                /\ Send(h, 201, <<"row", row>>)
       \/ /\ Send(h, 500, Error("Failed to create loan"))
          /\ UNCHANGED <<new_loans, seq, hist>>
    /\ pool' = Release(pool)
    /\ UNCHANGED <<users, transactions, uniqueEmail>>

\* app.put('/api/loans/:id'): await pool.connect(), then the validation
PutLoansConnect(h) ==
    /\ h \in Awaiting(PutLoans, "connect")
    /\ \/ /\ inflight' = Resume(h)
          /\ out' = Unhandled(h)
          /\ pool' = pool
       \/ /\ PutLoansValidation(h.body) # ""
          /\ Send(h, 400, Error(PutLoansValidation(h.body)))
          /\ pool' = Release(Checkout(pool))
       \/ /\ PutLoansValidation(h.body) = ""
          /\ Continue(h, [h EXCEPT !.pc = "query", !.client = TRUE])
          /\ pool' = Checkout(pool)
    /\ UNCHANGED <<users, transactions, new_loans, seq, uniqueEmail, hist>>

\* app.put('/api/loans/:id'): await client.query(UPDATE ...), then finally
PutLoansQuery(h) ==
    /\ h \in Awaiting(PutLoans, "query")
    /\ \/ LET matched == MatchLoans(h.id, h.user)
              updatedLoan == {SetLoan(l, Trimmed(h.body.person_name),
                                      Trimmed(h.body.type), h.body.amount,
                                      Trimmed(h.body.description), h.body.status,
                                      h.body.due_date) : l \in matched}
          IN /\ new_loans' = (new_loans \ matched) \cup updatedLoan
             /\ IF updatedLoan = {}
                THEN Send(h, 404, Error("Loan not found"))
                ELSE Send(h, 200, <<"row", CHOOSE l \in updatedLoan : TRUE>>)
       \/ /\ Send(h, 500, Error("Server error"))
          /\ UNCHANGED new_loans
    /\ pool' = Release(pool)
    /\ UNCHANGED <<users, transactions, seq, uniqueEmail, hist>>

\* app.delete('/api/loans/:id')
DeleteLoanQuery(h) ==
    /\ h \in Awaiting(DeleteLoan, "query")
    /\ \/ LET result == MatchLoans(h.id, h.user)
          IN /\ new_loans' = DeleteLoans(result)
             /\ IF result = {}
                THEN /\ Send(h, 404, Error("Loan not found"))
                     /\ hist' = hist
                ELSE /\ Send(h, 200, <<"message", "Loan deleted successfully">>)
                     /\ hist' = Deleted("new_loans", h.id)
       \/ /\ Send(h, 500, Error("Server error"))
          /\ UNCHANGED <<new_loans, hist>>
    /\ UNCHANGED <<users, transactions, seq, uniqueEmail, pool>>


----------------------------------------------------------------------------
(* Register and login: no gate, every await inside try/catch *)

\* bcrypt.genSalt(10)
GenSalt == "salt"

\* bcrypt.hash(password, salt)
Hash(password, salt) == <<"bcrypt", salt, password>>

\* bcrypt.compare(password, hash)
Compare(password, hash) == hash = Hash(password, hash[2])

\* INSERT INTO users (name, email, password)
UserRow(id, name, email, password) ==
    [user_id |-> id, name |-> Param(name), email |-> Param(email),
     password |-> password]

Credentials(name, email, password) ==
    [name |-> name, email |-> email, password |-> password]

Names == {Chars("Ana"), Chars("Ben")}
Emails == {Chars("ana@x.com"), Chars("ben@x.com")}
Passwords == {Chars("pw123"), Chars("wrong")}

RegisterBodies == {Credentials(n, e, p) : n \in Names, e \in Emails, p \in Passwords}
LoginBodies == {Credentials(Undefined, e, p) : e \in Emails, p \in Passwords}

\* a request to an unprotected route: the handler starts and suspends at
\* its first await, the SELECT
Start(ep, body) ==
    /\ BagCardinality(inflight) < MaxInFlight
    /\ inflight' = Suspend(Handler(ep, Undefined, 0, body, 0, "select"))
    /\ out' = Quiet
    /\ UNCHANGED <<users, transactions, new_loans, seq, uniqueEmail, pool, hist>>

\* app.post('/api/register'): the existence check
RegisterSelect(h) ==
    /\ h \in Awaiting(Register, "select")
    /\ \/ IF SelectUsers(h.body.email) # {}
          THEN Send(h, 400, Error("User already exists"))
          ELSE Continue(h, [h EXCEPT !.pc = "genSalt"])
       \/ Send(h, 500, Error("Server error"))
    /\ UNCHANGED <<users, transactions, new_loans, seq, uniqueEmail, pool, hist>>

\* app.post('/api/register'): await bcrypt.genSalt(10)
RegisterGenSalt(h) ==
    /\ h \in Awaiting(Register, "genSalt")
    /\ Continue(h, [h EXCEPT !.pc = "hash", !.locals = Chars(GenSalt)])
    /\ UNCHANGED <<users, transactions, new_loans, seq, uniqueEmail, pool, hist>>

\* app.post('/api/register'): await bcrypt.hash(password, salt)
RegisterHash(h) ==
    /\ h \in Awaiting(Register, "hash")
    /\ Continue(h, [h EXCEPT !.pc = "insert",
                             !.locals = Hash(h.body.password, h.locals)])
    /\ UNCHANGED <<users, transactions, new_loans, seq, uniqueEmail, pool, hist>>

\* app.post('/api/register'): the INSERT, then jwt.sign and res.json.  The
\* INSERT throws when the schema declares email UNIQUE and the email is
\* taken, as it may for any other reason.
RegisterInsert(h) ==
    /\ h \in Awaiting(Register, "insert")
    /\ \/ /\ seq.users < MaxUsers
          /\ ~(uniqueEmail /\ SelectUsers(h.body.email) # {})
          /\ LET row == UserRow(seq.users + 1, h.body.name, h.body.email, h.locals)
             IN /\ users' = users \cup {row}
                /\ seq' = [seq EXCEPT !.users = @ + 1]
                /\ Send(h, 200, <<"token", Sign(row.user_id)>>)
       \/ /\ Send(h, 500, Error("Server error"))
          /\ UNCHANGED <<users, seq>>
    /\ UNCHANGED <<transactions, new_loans, uniqueEmail, pool, hist>>

\* app.post('/api/login'): the SELECT; user.rows[0] is any matching row
LoginSelect(h) ==
    /\ h \in Awaiting(Login, "select")
    /\ \/ IF SelectUsers(h.body.email) = {}
          THEN Send(h, 400, Error("User does not exist"))
          ELSE \E row \in SelectUsers(h.body.email) :
                  Continue(h, [h EXCEPT !.pc = "compare", !.locals = <<"row", row>>])
       \/ Send(h, 500, Error("Server error"))
    /\ UNCHANGED <<users, transactions, new_loans, seq, uniqueEmail, pool, hist>>

\* app.post('/api/login'): await bcrypt.compare, then jwt.sign and res.json
LoginCompare(h) ==
    /\ h \in Awaiting(Login, "compare")
    /\ LET row == h.locals[2]
       IN IF Compare(h.body.password, row.password)
          THEN Send(h, 200, <<"token", Sign(row.user_id), row.name>>)
          ELSE Send(h, 400, Error("Invalid password"))
    /\ UNCHANGED <<users, transactions, new_loans, seq, uniqueEmail, pool, hist>>

----------------------------------------------------------------------------
(* Specifications *)

NoHistory == [transactions |-> <<>>, new_loans |-> <<>>]

\* Two users have registered; nothing else has happened.
Init ==
    /\ users = {UserRow(1, Chars("Ana"), Chars("ana@x.com"), Hash(Chars("pw123"), Chars(GenSalt))),
                UserRow(2, Chars("Ben"), Chars("ben@x.com"), Hash(Chars("pw123"), Chars(GenSalt)))}
    /\ transactions = {}
    /\ new_loans = {}
    /\ seq = [users |-> 2, transactions |-> 0, new_loans |-> 0]
    /\ uniqueEmail = TRUE
    /\ pool = 0
    /\ inflight = EmptyBag
    /\ out = Quiet
    /\ hist = NoHistory

\* The database as created, before any request.
InitAuth ==
    /\ users = {}
    /\ transactions = {}
    /\ new_loans = {}
    /\ seq = [users |-> 0, transactions |-> 0, new_loans |-> 0]
    /\ uniqueEmail \in BOOLEAN
    /\ pool = 0
    /\ inflight = EmptyBag
    /\ out = Quiet
    /\ hist = NoHistory

ExpenseHandlers(h) ==
    \/ GetExpensesQuery(h)
    \/ PostExpensesQuery(h)
    \/ DeleteExpenseQuery(h)
    \/ PutExpenseQuery(h)

LoanHandlers(h) ==
    \/ GetLoansQuery(h)
    \/ PostLoansConnect(h)
    \/ PostLoansQuery(h)
    \/ PutLoansConnect(h)
    \/ PutLoansQuery(h)
    \/ DeleteLoanQuery(h)

\* Requests to every protected route, each with a token signed for a
\* registered user.
Next ==
    \/ \E ep \in Protected : \E auth \in GoodHeaders :
          \E id \in Params(ep) : \E body \in Bodies(ep, FewLoanBodies) :
             Accept(ep, auth, id, body)
    \/ \E h \in BagToSet(inflight) : ExpenseHandlers(h)
    \/ \E h \in BagToSet(inflight) : LoanHandlers(h)

Spec == Init /\ [][Next]_vars

\* Requests to the loan routes, with every body of LoanBodies.
NextLoans ==
    \/ \E ep \in {GetLoans, PostLoans, PutLoans, DeleteLoan} : \E auth \in GoodHeaders :
          \E id \in Params(ep) : \E body \in Bodies(ep, LoanBodies) :
             Accept(ep, auth, id, body)
    \/ \E h \in BagToSet(inflight) : LoanHandlers(h)

SpecLoans == Init /\ [][NextLoans]_vars

\* Requests to every protected route with any Authorization header, one
\* body per route.
NextGate ==
    \/ \E ep \in Protected : \E auth \in GoodHeaders \cup BadHeaders :
          \E id \in Params(ep) :
             Accept(ep, auth, id, CHOOSE b \in Bodies(ep, FewLoanBodies) : TRUE)
    \/ \E ep \in Protected : \E auth \in GoodHeaders \cup BadHeaders :
          \E id \in Params(ep) :
             Reject(ep, auth, id, CHOOSE b \in Bodies(ep, FewLoanBodies) : TRUE)
    \/ \E h \in BagToSet(inflight) : ExpenseHandlers(h)
    \/ \E h \in BagToSet(inflight) : LoanHandlers(h)

SpecGate == Init /\ [][NextGate]_vars

\* Requests to register and login, on a database without users.
NextAuth ==
    \/ \E body \in RegisterBodies : Start(Register, body)
    \/ \E body \in LoginBodies : Start(Login, body)
    \/ \E h \in BagToSet(inflight) :
          \/ RegisterSelect(h)
          \/ RegisterGenSalt(h)
          \/ RegisterHash(h)
          \/ RegisterInsert(h)
          \/ LoginSelect(h)
          \/ LoginCompare(h)

SpecAuth == InitAuth /\ [][NextAuth]_vars


----------------------------------------------------------------------------
(* Vocabulary of the claims *)

IsResponse(o) == o.kind = "response"

\* the catch block of the handler answered: a statement threw
Threw(o) == o.status = 500

\* the request r is a PUT or DELETE on the id of a stored row that belongs
\* to another user than the caller
ForeignTarget(r) ==
    \/ /\ r.ep \in {DeleteExpense, PutExpense}
       /\ \E t \in transactions : t.transaction_id = r.id /\ t.user_id # r.user
    \/ /\ r.ep \in {PutLoans, DeleteLoan}
       /\ \E l \in new_loans : l.loan_id = r.id /\ l.user_id # r.user

\* the ids of a table that uid created and no DELETE has removed
LiveIds(table, uid) ==
    {i \in 1..Len(hist[table]) : hist[table][i].by = uid /\ hist[table][i].deletes = 0}

RECURSIVE Total(_, _)
\* the number of handlers of the bag that lie in the set S
Total(bag, S) ==
    IF S = {} THEN 0
    ELSE LET h == CHOOSE x \in S : TRUE
         IN CopiesIn(h, bag) + Total(bag, S \ {h})

\* the handlers of create loan and update loan, and those past their
\* pool.connect()
LoanWriters == {h \in BagToSet(inflight) : h.ep \in {PostLoans, PutLoans}}
ClientHolders == {h \in LoanWriters : h.pc = "query"}

\* the text of a header after its first space, up to the next space
AfterFirstSpace(p) ==
    IF \A i \in 1..Len(p) : p[i] # Space THEN <<>>
    ELSE LET k == CHOOSE i \in 1..Len(p) : p[i] = Space /\ \A j \in 1..(i - 1) : p[j] # Space
             rest == SubSeq(p, k + 1, Len(p))
             n == IF \A i \in 1..Len(rest) : rest[i] # Space THEN Len(rest)
                  ELSE (CHOOSE i \in 1..Len(rest) :
                           rest[i] = Space /\ \A j \in 1..(i - 1) : rest[j] # Space) - 1
         IN SubSeq(rest, 1, n)

\* no Authorization header, or no token after its first space
NoToken(auth) == auth = Undefined \/ AfterFirstSpace(auth[2]) = <<>>

\* the token of the header is one that jwt.sign made for a registered user
\* and that has not expired
Genuine(auth) ==
    /\ ~NoToken(auth)
    /\ \E u \in UserIds : AfterFirstSpace(auth[2]) = <<Jwt(u, TRUE, TRUE)>>

\* a number greater than zero and not Infinity or NaN
PositiveFinite(v) == v[1] = "number" /\ Len(v) = 3 /\ v[3] > 0

\* an amount that is missing, not a number, zero or negative
NotAPositiveNumber(v) ==
    \/ v \in {Undefined, Null}
    \/ v[1] \notin {"number", "string"}
    \/ v[1] = "string" /\ StringToNumber(v[2]) = NaN
    \/ ~PositiveFinite(ToNumber(v)) /\ ToNumber(v) # PosInf

----------------------------------------------------------------------------
(* Claims *)

\* C1 as amended: a PUT or DELETE on a row of another user never changes a
\* stored row and is never answered with success or with a row; the answer
\* is 404, or 400 when the body of a loan update fails the validation, or
\* 500 when a statement throws.
C1_ForeignRowsUntouched ==
    [][/\ (transactions' # transactions \/ new_loans' # new_loans)
            => IsResponse(out') /\ ~ForeignTarget(out'.req)
       /\ (IsResponse(out') /\ ForeignTarget(out'.req))
            => /\ out'.json[1] = "error"
               /\ \/ out'.status = 404
                  \/ Threw(out')
                  \/ out'.req.ep = PutLoans /\ out'.status = 400]_vars

\* C1 witness: the owner-scoped UPDATE of another user's loan found no row
C1_Witness ==
    /\ IsResponse(out) /\ out.req.ep = PutLoans /\ ForeignTarget(out.req)
    /\ out.status = 404

\* C1 as stated (with a database that executes every statement): each PUT
\* or DELETE on a row of another user is answered 404.
C1_ForeignAlways404 ==
    (IsResponse(out) /\ ForeignTarget(out.req) /\ ~Threw(out)) => out.status = 404

\* C2: a successful list of expenses or loans returns exactly the stored
\* rows whose ids the caller created and has not deleted, all of them owned
\* by the caller.
C2_ListIsOwnLiveRows ==
    /\ (IsResponse(out) /\ out.req.ep = GetExpenses /\ ~Threw(out))
         => /\ out.status = 200
            /\ out.json[2] \subseteq transactions
            /\ {t.transaction_id : t \in out.json[2]} = LiveIds("transactions", out.req.user)
            /\ \A t \in out.json[2] : t.user_id = out.req.user
    /\ (IsResponse(out) /\ out.req.ep = GetLoans /\ ~Threw(out))
         => /\ out.status = 200
            /\ out.json[2] \subseteq new_loans
            /\ {l.loan_id : l \in out.json[2]} = LiveIds("new_loans", out.req.user)
            /\ \A l \in out.json[2] : l.user_id = out.req.user

\* C2 witness: a list of loans answered without the loan of another user,
\* while the caller's own expense is stored
C2_Witness ==
    /\ IsResponse(out) /\ out.req.ep = GetLoans /\ out.status = 200
    /\ out.json[2] = {} /\ new_loans # {}
    /\ \E t \in transactions : t.user_id = out.req.user

\* C3: a request without a token is answered 401, one whose token fails the
\* verification 403; neither starts a handler, changes a table or the
\* history, or checks out a client.
C3_GateStopsBadTokens ==
    [][/\ \A h \in BagToSet(inflight') : Genuine(h.auth)
       /\ (out'.kind # "none" /\ NoToken(out'.req.auth))
            => out'.status = 401 /\ out'.json = Error("Access denied")
       /\ (out'.kind # "none" /\ ~NoToken(out'.req.auth) /\ ~Genuine(out'.req.auth))
            => out'.status = 403 /\ out'.json = Error("Invalid token")
       /\ (out'.kind # "none" /\ ~Genuine(out'.req.auth))
            => /\ IsResponse(out')
               /\ UNCHANGED <<users, transactions, new_loans, seq, pool, inflight, hist>>]_vars

\* C3 witness: an expired token on the update of a stored loan, answered
\* 403 while another handler holds a client
C3_Witness ==
    /\ IsResponse(out) /\ out.status = 403 /\ out.req.ep = PutLoans
    /\ out.req.auth = Bearer(Jwt(1, TRUE, FALSE))
    /\ new_loans # {} /\ pool = 1

\* C4: a register whose existence check runs when the email has a row is
\* answered 400 'User already exists' (500 if the check itself throws), with
\* no token, whatever its name and password, and users is unchanged.
C4_DuplicateEmailRejected ==
    [][\A h \in Awaiting(Register, "select") :
          (/\ \E u \in users : u.email = h.body.email
           /\ CopiesIn(h, inflight') < CopiesIn(h, inflight))
            => /\ users' = users
               /\ IsResponse(out') /\ out'.req = h
               /\ \/ out'.status = 400 /\ out'.json = Error("User already exists")
                  \/ Threw(out') /\ out'.json[1] = "error"]_vars

\* C4 witness: a register with another name and password than the stored
\* user of that email has been answered 400
C4_Witness ==
    /\ IsResponse(out) /\ out.req.ep = Register /\ out.status = 400
    /\ \E u \in users : /\ u.email = out.req.body.email
                        /\ u.name # out.req.body.name
                        /\ ~Compare(out.req.body.password, u.password)

\* C5 as stated: no two users share an email, and a register that reaches
\* its INSERT after another one took the email is answered 400.
C5_EmailUnique ==
    /\ \A u, v \in users : u.email = v.email => u = v
    /\ (IsResponse(out) /\ out.req.ep = Register /\ out.req.pc = "insert"
        /\ \E u \in users : /\ u.email = out.req.body.email
                            /\ out.status = 200 => u.user_id # out.json[2][2])
         => out.status = 400

\* C6 as stated: every stored amount is a positive finite number.
C6_AmountsPositive ==
    /\ \A t \in transactions : PositiveFinite(t.amount)
    /\ \A l \in new_loans : PositiveFinite(l.amount)

\* C7 as stated: create loan and update loan with a person_name and a type
\* that are not blank and an amount that is missing, not a number, zero or
\* negative are answered 400 'Valid amount is required'.
C7_BadAmountRejected ==
    (/\ IsResponse(out) /\ out.req.ep \in {PostLoans, PutLoans}
     /\ ~BlankText(out.req.body.person_name) /\ ~BlankText(out.req.body.type)
     /\ NotAPositiveNumber(out.req.body.amount))
      => out.status = 400 /\ out.json = Error("Valid amount is required")

\* C8: no id of either table has more than one DELETE answered 200, and a
\* DELETE of an id that is not stored is answered 404 (500 if the statement
\* throws) and changes no table.
C8_DeleteAtMostOnce ==
    [][/\ \A table \in DOMAIN hist' : \A i \in 1..Len(hist'[table]) :
             hist'[table][i].deletes <= 1
       /\ (/\ IsResponse(out') /\ out'.req.ep = DeleteExpense
           /\ \A t \in transactions : t.transaction_id # out'.req.id)
            => /\ out'.status = 404 \/ Threw(out')
               /\ out'.json[1] = "error"
               /\ UNCHANGED <<transactions, new_loans, hist>>
       /\ (/\ IsResponse(out') /\ out'.req.ep = DeleteLoan
           /\ \A l \in new_loans : l.loan_id # out'.req.id)
            => /\ out'.status = 404 \/ Threw(out')
               /\ out'.json[1] = "error"
               /\ UNCHANGED <<transactions, new_loans, hist>>]_vars

\* C8 witness: the owner's second DELETE of an expense, answered 404 after
\* the first was answered 200
C8_Witness ==
    /\ IsResponse(out) /\ out.req.ep = DeleteExpense /\ out.status = 404
    /\ out.req.id \in 1..Len(hist.transactions)
    /\ hist.transactions[out.req.id].by = out.req.user
    /\ hist.transactions[out.req.id].deletes = 1

\* C9 as stated: no error leaves a handler uncaught, so no request ends
\* without a response.
C9_NothingUncaught == out.kind # "unhandledRejection"

\* C10: the clients checked out are exactly those of the create and update
\* loan handlers between their pool.connect() and their finally block; none
\* is checked out when no request is in flight.
C10_ClientsReleased ==
    /\ pool = Total(inflight, ClientHolders)
    /\ pool <= Total(inflight, LoanWriters)
    /\ inflight = EmptyBag => pool = 0

\* C10 witness: a create loan whose INSERT threw was the last request in
\* flight, and its client is back in the pool
C10_Witness ==
    /\ IsResponse(out) /\ out.req.ep = PostLoans /\ Threw(out)
    /\ inflight = EmptyBag /\ pool = 0

=============================================================================
